---- MODULE Spec2Model ----
(***************************************************************************)
(* A model of inventory-service: the Item handlers over the relational     *)
(* store (GORM on PostgreSQL), the List pipeline (Query Builder and        *)
(* Pagination Engine) and the two rate limiters.                           *)
(*                                                                         *)
(* Strings that the code inspects character by character (query            *)
(* parameters, names) are tuples of one-character strings.  An absent      *)
(* JSON field is a key missing from the DOMAIN of the body; a query        *)
(* parameter is given, with a value, or not given.  Item ids (UUID         *)
(* strings) are the numbers 1..MaxIds, the empty string is NoId.  Machine  *)
(* integers are IntBits wide.  Times are clock ticks, the zero time.Time   *)
(* is                                                                      *)
(* ZeroTime.                                                               *)
(***************************************************************************)
EXTENDS Integers, Sequences, FiniteSets, TLC

VARIABLES
    store,      \* the items table: id -> Item, for the ids that have a row
    now,        \* the wall clock read by GORM's NowFunc
    used,       \* ids that ever had a row (uuid.NewString never repeats one)
    deleted,    \* history: ids whose last successful write was a Delete (204)
    resp,       \* the response to the last request
    query,      \* List: the query parameters of the request
    paging,     \* List: the PaginationParams the handler extracted
    built,      \* List: the statement the Query Builder built
    reads,      \* List: the reads the handler issued to the store
    listing,    \* List: the response
    counters,   \* Redis: limiter key -> the theoretical arrival time stored under it
    bucket,     \* the in-process limiter: its tokens and the time they were counted
    gate,       \* what a limiter middleware did with the last request
    served,     \* history: the requests the in-process limiter has seen
    chain,      \* List, line by line: the QueryBuilder and the *gorm.DB values it holds
    reqs        \* the requests in flight when handlers interleave: position and locals

vars ==
    <<store, now, used, deleted, resp, query, paging, built, reads, listing,
      counters, bucket, gate, served, chain, reqs>>

limVars == <<counters, bucket, gate, served>>

listVars == <<query, paging, built, reads, listing>>

stepVars == <<chain, reqs>>

(***************************************************************************)
(* Bounds of the model.                                                    *)
(***************************************************************************)
MaxIds == 2
MaxTime == 2

Ids == 1..MaxIds
NoId == 0
ZeroTime == 0
Times == 1..MaxTime
\* a client-chosen timestamp later than every clock value of a run
FarFuture == MaxTime + 1

Names == {<<"a">>, <<"A", "b">>}
Stocks == {0, 9}
Prices == {0, 150}

(***************************************************************************)
(* JSON bodies.  A body is a function from the keys it contains to JSON    *)
(* values; BadJSON is a body that does not parse.                          *)
(***************************************************************************)
JNull == [t |-> "null"]
JStr(s) == [t |-> "str", v |-> s]
JNum(n) == [t |-> "num", v |-> n]
JTime(n) == [t |-> "time", v |-> n]
BadJSON == [bad |-> JNull]

Restrict(f, S) == [k \in S |-> f[k]]

Has(body, k) == k \in DOMAIN body

\* encoding/json: a key that is absent or null leaves the Go field alone
FieldSet(body, k) == Has(body, k) /\ body[k].t # "null"

\* encoding/json: a value of the wrong JSON type is an UnmarshalTypeError
FieldOK(body, k, kind) == ~Has(body, k) \/ body[k].t \in {"null", kind}

FieldOr(body, k, zero) == IF FieldSet(body, k) THEN body[k].v ELSE zero

(***************************************************************************)
(* models.Item and its binding from a request body.                        *)
(***************************************************************************)
Item(id, name, stock, price, ca, ua) ==
    [id |-> id, name |-> name, stock |-> stock, price |-> price,
     created_at |-> ca, updated_at |-> ua]

\* c.ShouldBindJSON(&input) with input models.Item: no binding tags, so only
\* the syntax and the JSON types are checked
BindItemOK(body) ==
    /\ ~Has(body, "bad")
    /\ FieldOK(body, "id", "str")
    /\ FieldOK(body, "name", "str")
    /\ FieldOK(body, "stock", "num")
    /\ FieldOK(body, "price", "num")
    /\ FieldOK(body, "created_at", "time")
    /\ FieldOK(body, "updated_at", "time")
\* a faulty binder that loses the stock field
BindItem_NoStock(body) ==
    Item(FieldOr(body, "id", NoId), FieldOr(body, "name", <<>>),
         0, FieldOr(body, "price", 0),
         FieldOr(body, "created_at", ZeroTime),
         FieldOr(body, "updated_at", ZeroTime))

BindItem(body) ==
    Item(FieldOr(body, "id", NoId), FieldOr(body, "name", <<>>),
         FieldOr(body, "stock", 0), FieldOr(body, "price", 0),
         FieldOr(body, "created_at", ZeroTime),
         FieldOr(body, "updated_at", ZeroTime))

\* c.ShouldBindJSON(&payload) with payload {Name *string; Stock *int; Price *float64}
BindPayloadOK(body) ==
    /\ ~Has(body, "bad")
    /\ FieldOK(body, "name", "str")
    /\ FieldOK(body, "stock", "num")
    /\ FieldOK(body, "price", "num")

\* if payload.X != nil { item.X = *payload.X }
ApplyPayload(item, body) ==
    [item EXCEPT !.name = IF FieldSet(body, "name") THEN body["name"].v ELSE @,
                 !.stock = IF FieldSet(body, "stock") THEN body["stock"].v ELSE @,
                 !.price = IF FieldSet(body, "price") THEN body["price"].v ELSE @]

\* Item.BeforeCreate: an empty id gets a generated UUID
BeforeCreate(item, gen) ==
    [item EXCEPT !.id = IF @ = NoId THEN gen ELSE @]

(***************************************************************************)
(* The store operations the handlers use (GORM).                           *)
(***************************************************************************)
\* db.First(&item, "id = ?", id): a row, or an error (record not found)
DbFound(st, id) == id \in DOMAIN st

\* db.Create: CreatedAt / UpdatedAt are set to now only when they are zero
CreateStamp(item, t) ==
    [item EXCEPT !.created_at = IF @ = ZeroTime THEN t ELSE @,
                 !.updated_at = IF @ = ZeroTime THEN t ELSE @]

\* a faulty store that takes a second row with the same primary key
DbCreateOK_Always(st, item) == TRUE

\* db.Create: INSERT; a second row with the same primary key is refused
DbCreateOK(st, item) == item.id \notin DOMAIN st

DbInsert(st, item) ==
    [k \in DOMAIN st \cup {item.id} |-> IF k = item.id THEN item ELSE st[k]]

\* db.Save: UPDATE of all columns, with UpdatedAt set to now
SaveStamp(item, t) == [item EXCEPT !.updated_at = t]

DbSave(st, item, t) == DbInsert(st, SaveStamp(item, t))
\* a faulty Delete that leaves the row in place
DbDelete_Keep(st, id) == st

\* db.Delete(&item): DELETE by primary key (Item has no DeletedAt column)
DbDelete(st, id) == Restrict(st, DOMAIN st \ {id})

(***************************************************************************)
(* Responses.                                                              *)
(***************************************************************************)
Response(op, id, status, body) ==
    [op |-> op, id |-> id, status |-> status, body |-> body]

ErrorBody(msg) == [error |-> msg]
NoBody == [empty |-> TRUE]
NoResp == Response("none", NoId, 0, NoBody)

NameStockPrice(item) ==
    [name |-> item.name, stock |-> item.stock, price |-> item.price]

(***************************************************************************)
(* Request bodies the model sends.                                         *)
(***************************************************************************)
FullBodies ==
    {[name |-> JStr(n), stock |-> JNum(s), price |-> JNum(p)] :
        n \in Names, s \in Stocks, p \in Prices}

SampleBody == [name |-> JStr(<<"a">>), stock |-> JNum(9), price |-> JNum(150)]

\* bodies for PUT: any subset of name/stock/price, a null, a wrong type, bad syntax
UpdateBodies ==
    {Restrict(b, S) : b \in FullBodies, S \in SUBSET {"name", "stock", "price"}}
    \cup {[stock |-> JNull], [stock |-> JStr(<<"a">>)], BadJSON}

\* bodies for POST: name/stock/price, optionally with an id of the client's
\* choosing, and bodies that miss fields or do not bind
CreateBodies ==
    FullBodies
    \cup {[name |-> b["name"], stock |-> b["stock"], price |-> b["price"],
           id |-> JStr(i)] : b \in FullBodies, i \in Ids}
    \cup {[name |-> JStr(<<"a">>)], [stock |-> JStr(<<"a">>)], BadJSON}

\* bodies for POST that carry timestamps of the client's choosing
StampedBodies ==
    {[name |-> SampleBody["name"], stock |-> SampleBody["stock"],
      price |-> SampleBody["price"], created_at |-> JTime(FarFuture)],
     [name |-> SampleBody["name"], stock |-> SampleBody["stock"],
      price |-> SampleBody["price"], updated_at |-> JTime(FarFuture)]}

(***************************************************************************)
(* The handlers.  dbErr says whether the store operation fails for a       *)
(* reason of its own (connection lost, statement timeout).                 *)
(***************************************************************************)
\* GET /inventory/:id
GetItemByID(id, dbErr) ==
    /\ resp' = IF ~dbErr /\ DbFound(store, id)
               THEN Response("get", id, 200, store[id])
               ELSE Response("get", id, 404, ErrorBody("item not found"))
    /\ UNCHANGED <<store, now, used, deleted>>

\* POST /inventory
CreateItem(body, gen, dbErr) ==
    IF ~BindItemOK(body)
    THEN /\ resp' = Response("create", NoId, 400, ErrorBody("bind"))
         /\ UNCHANGED <<store, now, used, deleted>>
    ELSE LET item == CreateStamp(BeforeCreate(BindItem(body), gen), now)
         IN IF dbErr \/ ~DbCreateOK(store, item)
            THEN /\ resp' = Response("create", NoId, 500, ErrorBody("db"))
                 /\ UNCHANGED <<store, now, used, deleted>>
            ELSE /\ store' = DbInsert(store, item)
                 /\ used' = used \cup {item.id}
                 /\ deleted' = deleted \ {item.id}
                 /\ resp' = Response("create", item.id, 201, item)
                 /\ UNCHANGED now

\* a faulty Update that examines the body before it looks the item up
UpdateItem_BindFirst(id, body, findErr, saveErr) ==
    IF ~BindPayloadOK(body)
    THEN /\ resp' = Response("update", id, 400, ErrorBody("bind"))
         /\ UNCHANGED <<store, now, used, deleted>>
    ELSE IF findErr \/ ~DbFound(store, id)
    THEN /\ resp' = Response("update", id, 404, ErrorBody("item not found"))
         /\ UNCHANGED <<store, now, used, deleted>>
    ELSE IF saveErr
    THEN /\ resp' = Response("update", id, 500, ErrorBody("db"))
         /\ UNCHANGED <<store, now, used, deleted>>
    ELSE /\ store' = DbSave(store, ApplyPayload(store[id], body), now)
         /\ resp' = Response("update", id, 200, SaveStamp(ApplyPayload(store[id], body), now))
         /\ UNCHANGED <<now, used, deleted>>

\* PUT /inventory/:id
UpdateItem(id, body, findErr, saveErr) ==
    IF findErr \/ ~DbFound(store, id)
    THEN /\ resp' = Response("update", id, 404, ErrorBody("item not found"))
         /\ UNCHANGED <<store, now, used, deleted>>
    ELSE IF ~BindPayloadOK(body)
    THEN /\ resp' = Response("update", id, 400, ErrorBody("bind"))
         /\ UNCHANGED <<store, now, used, deleted>>
    ELSE IF saveErr
    THEN /\ resp' = Response("update", id, 500, ErrorBody("db"))
         /\ UNCHANGED <<store, now, used, deleted>>
    ELSE LET item == ApplyPayload(store[id], body)
         IN /\ store' = DbSave(store, item, now)
            \* c.JSON(200, item): the struct Save stamped
            /\ resp' = Response("update", id, 200, SaveStamp(item, now))
            /\ UNCHANGED <<now, used, deleted>>

\* DELETE /inventory/:id
DeleteItem(id, findErr, delErr) ==
    IF findErr \/ ~DbFound(store, id)
    THEN /\ resp' = Response("delete", id, 404, ErrorBody("item not found"))
         /\ UNCHANGED <<store, now, used, deleted>>
    ELSE IF delErr
    THEN /\ resp' = Response("delete", id, 500, ErrorBody("db"))
         /\ UNCHANGED <<store, now, used, deleted>>
    ELSE /\ store' = DbDelete(store, id)
         /\ deleted' = deleted \cup {id}
         /\ resp' = Response("delete", id, 204, NoBody)
         /\ UNCHANGED <<now, used>>

\* time passes between requests
Tick ==
    /\ now < MaxTime
    /\ now' = now + 1
    /\ UNCHANGED <<store, used, deleted, resp>>

\* uuid.NewString(): an id no row ever had (when every id of the model is
\* used, only a Create with a client-chosen id remains)
FreshIds == Ids \ used

GenChoices(body, pool) ==
    IF BindItemOK(body) /\ BindItem(body).id = NoId THEN pool ELSE {NoId}

(***************************************************************************)
(* Strings.  The characters the model uses, in byte order.                 *)
(***************************************************************************)
AsciiOrder ==
    <<"%", "+", "-", "0", "1", "2", "3", "4", "5", "6", "7", "8", "9",
      ";", "A", "B", "C", "D", "E", "F", "G", "H", "I", "J", "K", "L",
      "M", "N", "O", "P", "Q", "R", "S", "T", "U", "V", "W", "X", "Y",
      "Z", "_", "a", "b", "c", "d", "e", "f", "g", "h", "i", "j", "k",
      "l", "m", "n", "o", "p", "q", "r", "s", "t", "u", "v", "w", "x",
      "y", "z">>

Rank(c) == CHOOSE i \in 1..Len(AsciiOrder) : AsciiOrder[i] = c

IsDigit(c) == Rank(c) \in Rank("0")..Rank("9")
DigitVal(c) == Rank(c) - Rank("0")

\* SQL LOWER()
LowerChar(c) ==
    IF Rank(c) \in Rank("A")..Rank("Z")
    THEN AsciiOrder[Rank(c) + (Rank("a") - Rank("A"))]
    ELSE c

Lower(s) == [i \in 1..Len(s) |-> LowerChar(s[i])]

RECURSIVE LexLeq(_, _)
LexLeq(a, b) ==
    IF a = <<>> THEN TRUE
    ELSE IF b = <<>> THEN FALSE
    ELSE IF Head(a) = Head(b) THEN LexLeq(Tail(a), Tail(b))
    ELSE Rank(Head(a)) < Rank(Head(b))

\* SQL LIKE: % matches any run of characters, _ any one character
RECURSIVE Like(_, _)
Like(s, pat) ==
    IF pat = <<>> THEN s = <<>>
    ELSE IF Head(pat) = "%"
         THEN Like(s, Tail(pat)) \/ (s # <<>> /\ Like(Tail(s), pat))
    ELSE /\ s # <<>>
         /\ (Head(pat) = "_" \/ Head(pat) = Head(s))
         /\ Like(Tail(s), Tail(pat))

(***************************************************************************)
(* Machine integers.  Go's int is modelled IntBits wide.                   *)
(***************************************************************************)
IntBits == 16
MaxInt == 2^(IntBits - 1) - 1
MinInt == -(2^(IntBits - 1))

Min(a, b) == IF a < b THEN a ELSE b
Max(a, b) == IF a > b THEN a ELSE b

\* two's complement wrap-around of an arithmetic result
Wrap(n) ==
    LET m == n % (2^IntBits)
    IN IF m > MaxInt THEN m - 2^IntBits ELSE m

\* the value of a digit string, saturating just above MaxInt
RECURSIVE DigitsValue(_, _)
DigitsValue(s, acc) ==
    IF s = <<>> THEN acc
    ELSE DigitsValue(Tail(s), Min(acc * 10 + DigitVal(Head(s)), MaxInt + 1))

Unsigned(s) == IF s # <<>> /\ Head(s) \in {"+", "-"} THEN Tail(s) ELSE s

IntSyntaxOK(s) ==
    /\ Unsigned(s) # <<>>
    /\ \A i \in 1..Len(Unsigned(s)) : IsDigit(Unsigned(s)[i])

IntInRange(s) ==
    IF Head(s) = "-" THEN DigitsValue(Unsigned(s), 0) <= MaxInt + 1
    ELSE DigitsValue(Unsigned(s), 0) <= MaxInt

\* strconv.Atoi with its error dropped (`page, _ := strconv.Atoi(...)`):
\* 0 on a syntax error, the nearest representable value on a range error
Atoi(s) ==
    IF ~IntSyntaxOK(s) THEN 0
    ELSE IF Head(s) = "-" THEN -DigitsValue(Unsigned(s), 0)
    ELSE Min(DigitsValue(Unsigned(s), 0), MaxInt)

(***************************************************************************)
(* Query parameters (gin.Context).  A query gives each parameter as absent *)
(* or as a value; sort_by and order, which the code only compares as a     *)
(* whole, are TLA+ strings.                                                *)
(***************************************************************************)
Some(x) == [given |-> TRUE, v |-> x]
NoneT == [given |-> FALSE, v |-> <<>>]
NoneS == [given |-> FALSE, v |-> ""]

\* c.DefaultQuery(key, def): def only when the key is absent
DefaultQuery(q, key, def) == IF q[key].given THEN q[key].v ELSE def

\* c.Query(key): the empty string when the key is absent
Query(q, key) == IF q[key].given THEN q[key].v ELSE <<>>

(***************************************************************************)
(* utils.ExtractPaginationParams                                           *)
(***************************************************************************)
DefaultPageSize == 10
MaxPageSize == 100

ClampPage(page) == IF page < 1 THEN 1 ELSE page

ClampPageSize(pageSize) ==
    IF pageSize < 1 THEN DefaultPageSize
    ELSE IF pageSize > MaxPageSize THEN MaxPageSize
    ELSE pageSize

\* offset := (page - 1) * pageSize, in machine arithmetic
OffsetOf(page, pageSize) == Wrap((page - 1) * pageSize)

ExtractPaginationParams(q) ==
    LET page == ClampPage(Atoi(DefaultQuery(q, "page", <<"1">>)))
        pageSize == ClampPageSize(Atoi(DefaultQuery(q, "page_size", <<"1", "0">>)))
    IN [page |-> page, pageSize |-> pageSize, offset |-> OffsetOf(page, pageSize)]

(***************************************************************************)
(* utils.QueryBuilder.  A statement is the ORDER BY clauses and the WHERE  *)
(* conditions collected so far.                                            *)
(***************************************************************************)
\* db.Model(&models.Item{})
NewQueryBuilder == [orders |-> <<>>, wheres |-> <<>>]

ItemSortConfig ==
    [AllowedFields |-> {"name", "stock", "price", "created_at"},
     DefaultField |-> "created_at",
     DefaultOrder |-> "desc"]

ItemFilterConfigs ==
    <<[QueryParam |-> "name", DBColumn |-> "name", Operator |-> "ILIKE"],
      [QueryParam |-> "min_stock", DBColumn |-> "stock", Operator |-> ">="]>>
\* a faulty Query Builder that passes sort_by through
SortField_Unchecked(q, config) == DefaultQuery(q, "sort_by", config.DefaultField)


SortField(q, config) ==
    LET sortBy == DefaultQuery(q, "sort_by", config.DefaultField)
    IN IF sortBy \in config.AllowedFields THEN sortBy ELSE config.DefaultField

SortOrder(q, config) ==
    LET order == DefaultQuery(q, "order", config.DefaultOrder)
    IN IF order # "asc" /\ order # "desc" THEN config.DefaultOrder ELSE order

\* qb.db.Order(sortBy + " " + order)
ApplySorting(stmt, q, config) ==
    [stmt EXCEPT !.orders = Append(@, SortField(q, config) \o " " \o SortOrder(q, config))]

Where(col, fn, op, arg) == [col |-> col, fn |-> fn, op |-> op, arg |-> arg]

\* the condition one FilterConfig adds for a non-empty value
FilterWhere(config, value) ==
    CASE config.Operator = "LIKE" ->
            Where(config.DBColumn, "", "LIKE", <<"%">> \o value \o <<"%">>)
      [] config.Operator = "ILIKE" ->
            Where(config.DBColumn, "LOWER", "LIKE", <<"%">> \o value \o <<"%">>)
      [] config.Operator \in {">=", "<=", ">", "<"} ->
            Where(config.DBColumn, "", config.Operator, value)
      [] OTHER -> Where(config.DBColumn, "", "=", value)

\* a faulty Query Builder that adds a predicate for an empty value too
ApplyFilter_Always(stmt, q, config) ==
    [stmt EXCEPT !.wheres = Append(@, FilterWhere(config, Query(q, config.QueryParam)))]

ApplyFilter(stmt, q, config) ==
    IF Query(q, config.QueryParam) = <<>> THEN stmt
    ELSE [stmt EXCEPT !.wheres = Append(@, FilterWhere(config, Query(q, config.QueryParam)))]

\* a faulty Query Builder that applies only the first filter configuration
ApplyFilters_First(stmt, q, configs) ==
    IF configs = <<>> THEN stmt ELSE ApplyFilter(stmt, q, Head(configs))

RECURSIVE ApplyFilters(_, _, _)
ApplyFilters(stmt, q, configs) ==
    IF configs = <<>> THEN stmt
    ELSE ApplyFilters(ApplyFilter(stmt, q, Head(configs)), q, Tail(configs))

(***************************************************************************)
(* The store's evaluation of a statement (PostgreSQL).                     *)
(***************************************************************************)
\* a comparison with the integer column stock parses its argument as an integer
WhereFails(w) ==
    w.op \in {">=", "<=", ">", "<", "="} /\ w.col = "stock"
    /\ ~(IntSyntaxOK(w.arg) /\ IntInRange(w.arg))

WhereHolds(w, row) ==
    LET v == IF w.fn = "LOWER" THEN Lower(row[w.col]) ELSE row[w.col]
    IN CASE w.op = "LIKE" -> Like(v, w.arg)
         [] w.op = ">=" -> v >= Atoi(w.arg)
         [] w.op = "<=" -> v <= Atoi(w.arg)
         [] w.op = ">" -> v > Atoi(w.arg)
         [] w.op = "<" -> v < Atoi(w.arg)
         [] OTHER -> IF w.col = "stock" THEN v = Atoi(w.arg) ELSE v = w.arg

Matching(st, wheres) ==
    {id \in DOMAIN st : \A i \in 1..Len(wheres) : WhereHolds(wheres[i], st[id])}

\* ORDER BY <column> <direction>: the clauses the store can parse
ItemColumns == {"id", "name", "stock", "price", "created_at", "updated_at"}

OrderClauses == {[field |-> f, dir |-> d] : f \in ItemColumns, d \in {"asc", "desc"}}

OrderText(o) == o.field \o " " \o o.dir

OrderParses(clause) == \E o \in OrderClauses : OrderText(o) = clause

ParseOrder(clause) == CHOOSE o \in OrderClauses : OrderText(o) = clause

KeyLeq(a, b, field) ==
    IF field = "name" THEN LexLeq(a.name, b.name) ELSE a[field] <= b[field]

InOrder(a, b, clause) ==
    IF ParseOrder(clause).dir = "asc" THEN KeyLeq(a, b, ParseOrder(clause).field)
    ELSE KeyLeq(b, a, ParseOrder(clause).field)

RECURSIVE PermSeqs(_)
PermSeqs(S) ==
    IF S = {} THEN {<<>>}
    ELSE UNION {{<<x>> \o p : p \in PermSeqs(S \ {x})} : x \in S}

\* the orders in which the store may return the rows: rows that tie on the
\* sort key come in any order
SortedRows(st, ids, orders) ==
    {[i \in 1..Len(p) |-> st[p[i]]] : p \in
        {p \in PermSeqs(ids) :
            \A i \in 1..(Len(p) - 1) :
                orders = <<>> \/ InOrder(st[p[i]], st[p[i + 1]], orders[Len(orders)])}}

\* LIMIT n OFFSET m as GORM writes them: OFFSET only when m > 0
Window(rows, offset, limit) ==
    LET skip == IF offset > 0 THEN offset ELSE 0
    IN IF skip >= Len(rows) THEN <<>>
       ELSE SubSeq(rows, skip + 1, Min(Len(rows), skip + limit))

(***************************************************************************)
(* utils.PaginateWithQuery                                                 *)
(***************************************************************************)
\* a faulty page count that rounds down
CeilDiv_Floor(total, pageSize) == total \div pageSize

\* int(math.Ceil(float64(total) / float64(pageSize)))
CeilDiv(total, pageSize) ==
    IF total % pageSize = 0 THEN total \div pageSize ELSE total \div pageSize + 1

TotalPages(total, pageSize) ==
    IF CeilDiv(total, pageSize) = 0 THEN 1 ELSE CeilDiv(total, pageSize)

HasNext(page, totalPages) == page < totalPages

HasPrev(page) == page > 1

PaginationMeta(total, params) ==
    [current_page |-> params.page,
     page_size |-> params.pageSize,
     total_pages |-> TotalPages(total, params.pageSize),
     total_records |-> total,
     has_next |-> HasNext(params.page, TotalPages(total, params.pageSize)),
     has_prev |-> HasPrev(params.page)]

CountRead(stmt, outcome) ==
    [kind |-> "count", wheres |-> stmt.wheres, outcome |-> outcome]

FindRead(stmt, params, outcome) ==
    [kind |-> "find", wheres |-> stmt.wheres, orders |-> stmt.orders,
     limit |-> params.pageSize, offset |-> params.offset, outcome |-> outcome]

\* a store that coerces every value it is given
StatementFails_Never(stmt) == FALSE

\* a statement the store refuses
StatementFails(stmt) ==
    \/ \E i \in 1..Len(stmt.wheres) : WhereFails(stmt.wheres[i])
    \/ \E i \in 1..Len(stmt.orders) : ~OrderParses(stmt.orders[i])

NoPage == [status |-> 0]

ErrorPage(msg) == [status |-> 500, error |-> msg]

\* a faulty Pagination Engine that counts on the query after Offset and Limit
\* were applied to it
PaginateWithQuery_WindowedCount(st, stmt, params, countErr, findErr) ==
    IF StatementFails(stmt)
    THEN {<<<<CountRead(stmt, "statement error")>>, ErrorPage("statement")>>}
    ELSE IF countErr
    THEN {<<<<CountRead(stmt, "store error")>>, ErrorPage("store")>>}
    ELSE IF findErr
    THEN {<<<<CountRead(stmt, "ok"), FindRead(stmt, params, "store error")>>,
            ErrorPage("store")>>}
    ELSE {<<<<CountRead(stmt, "ok"), FindRead(stmt, params, "ok")>>,
            [status |-> 200,
             data |-> Window(rows, params.offset, params.pageSize),
             pagination |-> PaginationMeta(Len(Window(rows, params.offset, params.pageSize)),
                                           params)]>> :
          rows \in SortedRows(st, Matching(st, stmt.wheres), stmt.orders)}

\* the outcomes of PaginateWithQuery and the response GetItems makes of each:
\* <<reads issued, response>>.  countErr / findErr: the read fails for a
\* reason of the store's own.
PaginateWithQuery(st, stmt, params, countErr, findErr) ==
    IF StatementFails(stmt)
    THEN {<<<<CountRead(stmt, "statement error")>>, ErrorPage("statement")>>}
    ELSE IF countErr
    THEN {<<<<CountRead(stmt, "store error")>>, ErrorPage("store")>>}
    ELSE IF findErr
    THEN {<<<<CountRead(stmt, "ok"), FindRead(stmt, params, "store error")>>,
            ErrorPage("store")>>}
    ELSE {<<<<CountRead(stmt, "ok"), FindRead(stmt, params, "ok")>>,
            [status |-> 200,
             data |-> Window(rows, params.offset, params.pageSize),
             pagination |-> PaginationMeta(Cardinality(Matching(st, stmt.wheres)), params)]>> :
          rows \in SortedRows(st, Matching(st, stmt.wheres), stmt.orders)}

(***************************************************************************)
(* controllers.GetItems (the routed variant): GET /inventory               *)
(***************************************************************************)
BuildItemQuery(q) ==
    ApplyFilters(ApplySorting(NewQueryBuilder, q, ItemSortConfig), q, ItemFilterConfigs)

GetItems(countErr, findErr) ==
    /\ listing = NoPage
    /\ paging' = ExtractPaginationParams(query)
    /\ built' = BuildItemQuery(query)
    /\ \E out \in PaginateWithQuery(store, BuildItemQuery(query),
                                     ExtractPaginationParams(query), countErr, findErr) :
          /\ reads' = out[1]
          /\ listing' = out[2]
    /\ UNCHANGED <<store, query>>

(***************************************************************************)
(* The rate limiters.  Time is counted in seconds.                         *)
(***************************************************************************)
MaxRequests == 7

Clients == {"10.0.0.1", "10.0.0.2"}

\* fmt.Sprintf("%d", n)
RECURSIVE Digits(_)
Digits(n) ==
    IF n < 10 THEN <<AsciiOrder[Rank("0") + n]>>
    ELSE Digits(n \div 10) \o <<AsciiOrder[Rank("0") + (n % 10)]>>

Itoa(n) == IF n < 0 THEN <<"-">> \o Digits(-n) ELSE Digits(n)

\* the route handler that c.Next() runs
Routed == \E id \in Ids : GetItemByID(id, FALSE)

NotRouted == UNCHANGED <<store, now, used, deleted, resp>>

NoGate == [mw |-> "none"]

(***************************************************************************)
(* middlewares.RedisRateLimiter over redis_rate (GCRA).                    *)
(***************************************************************************)
RedisRate == 1
RedisBurst == 5

\* redis_rate.PerSecond(rate) with Burst set
Limit(rate, burst) == [Rate |-> rate, Burst |-> burst, Period |-> 1]

RedisKey(clientIP) == "rate_limit:" \o clientIP

\* rateLimiter.Allow(ctx, key, limit): <<counters afterwards, result>>
Allow(cs, key, limit, t) ==
    LET emission == limit.Period \div limit.Rate
        tat == IF key \in DOMAIN cs THEN Max(cs[key], t) ELSE t
        newTat == tat + emission
        diff == t - (newTat - emission * limit.Burst)
        remaining == diff \div emission
    IN IF remaining < 0
       THEN <<cs, [Allowed |-> 0, Remaining |-> 0, RetryAfter |-> -diff,
                   ResetAfter |-> tat - t]>>
       ELSE <<[k \in DOMAIN cs \cup {key} |-> IF k = key THEN newTat ELSE cs[k]],
              [Allowed |-> 1, Remaining |-> remaining, RetryAfter |-> -1,
               ResetAfter |-> newTat - t]>>

Header(name, value) == [name |-> name, value |-> value]

RedisHeaders(rate, result, t) ==
    {Header("X-RateLimit-Limit", Itoa(rate)),
     Header("X-RateLimit-Remaining", Itoa(result.Remaining)),
     Header("X-RateLimit-Reset", Itoa(t + 1))}

Gate(mw, client, calls, outcome, status, headers, body, handled) ==
    [mw |-> mw, client |-> client, calls |-> calls, outcome |-> outcome,
     status |-> status, headers |-> headers, body |-> body, handled |-> handled]

AllowCall(key, failed) == [key |-> key, failed |-> failed]

Seconds == <<" ", "s", "e", "c", "o", "n", "d", "s">>
\* a faulty gate that answers a backend failure like an exceeded limit
RedisOutcome_ErrorAsLimit(backendErr, result) ==
    IF backendErr \/ result.Allowed = 0 THEN "REJECTED_LIMIT" ELSE "ADMITTED"

\* what the middleware makes of the answer to its check
RedisOutcome(backendErr, result) ==
    IF backendErr THEN "REJECTED_ERROR"
    ELSE IF result.Allowed = 0 THEN "REJECTED_LIMIT"
    ELSE "ADMITTED"

\* one request through the middleware; backendErr: Redis fails the check
RedisRateLimiter(clientIP, backendErr) ==
    LET key == RedisKey(clientIP)
        out == Allow(counters, key, Limit(RedisRate, RedisBurst), now)
        result == out[2]
    IN IF RedisOutcome(backendErr, result) = "REJECTED_ERROR"
       THEN /\ gate' = Gate("redis", clientIP, <<AllowCall(key, TRUE)>>, "REJECTED_ERROR",
                            500, {}, ErrorBody("rate limiter error"), FALSE)
            /\ NotRouted
            /\ UNCHANGED <<counters, bucket, served>>
       ELSE IF RedisOutcome(backendErr, result) = "REJECTED_LIMIT"
       THEN /\ gate' = Gate("redis", clientIP, <<AllowCall(key, backendErr)>>, "REJECTED_LIMIT",
                            429,
                            RedisHeaders(RedisRate, result, now)
                                \cup {Header("Retry-After", Itoa(result.RetryAfter))},
                            [error |-> "too many requests",
                             retry_after |-> Itoa(result.RetryAfter) \o Seconds],
                            FALSE)
            /\ counters' = out[1]
            /\ NotRouted
            /\ UNCHANGED <<bucket, served>>
       ELSE /\ Routed
            /\ gate' = Gate("redis", clientIP, <<AllowCall(key, backendErr)>>, "ADMITTED",
                            resp'.status, RedisHeaders(RedisRate, result, now),
                            resp'.body, TRUE)
            /\ counters' = out[1]
            /\ UNCHANGED <<bucket, served>>

(***************************************************************************)
(* middlewares.RedisRateLimiterByUser, given the limit the service uses.   *)
(* userID is what an authentication middleware left under "user_id" in    *)
(* the request context, if anything.                                       *)
(***************************************************************************)
UserIds == {"u1", "10.0.0.1"}

UserOpts == {NoneS} \cup {Some(u) : u \in UserIds}

\* userID, exists := c.Get("user_id"); if !exists { userID = c.ClientIP() }
UserOrIP(userID, clientIP) == IF userID.given THEN userID.v ELSE clientIP

UserKey(userID, clientIP) == "rate_limit:user:" \o UserOrIP(userID, clientIP)

UserHeaders(rate, result) ==
    {Header("X-RateLimit-Limit", Itoa(rate)),
     Header("X-RateLimit-Remaining", Itoa(result.Remaining))}

\* one request through the middleware; backendErr: Redis fails the check
RedisRateLimiterByUser(userID, clientIP, backendErr) ==
    LET key == UserKey(userID, clientIP)
        out == Allow(counters, key, Limit(RedisRate, RedisBurst), now)
        result == out[2]
    IN IF RedisOutcome(backendErr, result) = "REJECTED_ERROR"
       THEN /\ gate' = Gate("redis by user", clientIP, <<AllowCall(key, TRUE)>>,
                            "REJECTED_ERROR", 500, {}, ErrorBody("rate limiter error"),
                            FALSE)
            /\ NotRouted
            /\ UNCHANGED <<counters, bucket, served>>
       ELSE IF RedisOutcome(backendErr, result) = "REJECTED_LIMIT"
       THEN /\ gate' = Gate("redis by user", clientIP, <<AllowCall(key, backendErr)>>,
                            "REJECTED_LIMIT", 429, UserHeaders(RedisRate, result),
                            \* result.RetryAfter.String()
                            [error |-> "too many requests",
                             retry_after |-> Itoa(result.RetryAfter) \o <<"s">>],
                            FALSE)
            /\ counters' = out[1]
            /\ NotRouted
            /\ UNCHANGED <<bucket, served>>
       ELSE /\ Routed
            /\ gate' = Gate("redis by user", clientIP, <<AllowCall(key, backendErr)>>,
                            "ADMITTED", resp'.status, UserHeaders(RedisRate, result),
                            resp'.body, TRUE)
            /\ counters' = out[1]
            /\ UNCHANGED <<bucket, served>>

(***************************************************************************)
(* middlewares.RateLimiter over golang.org/x/time/rate (token bucket).     *)
(***************************************************************************)
BucketRate == 1
BucketBurst == 5

\* rate.NewLimiter(r, b): a full bucket
NewLimiter(r, b) == [limit |-> r, burst |-> b, tokens |-> b, last |-> 1]
\* a faulty bucket that never spends a token
BucketAllow_Free(lim, t) == <<lim, TRUE>>

\* limiter.Allow() at time t: <<limiter afterwards, allowed>>
BucketAllow(lim, t) ==
    LET tokens == Min(lim.burst, lim.tokens + (t - lim.last) * lim.limit) - 1
    IN IF tokens >= 0
       THEN <<[lim EXCEPT !.tokens = tokens, !.last = t], TRUE>>
       ELSE <<lim, FALSE>>

Seen(caller, at, outcome, handled) ==
    [caller |-> caller, at |-> at, outcome |-> outcome, handled |-> handled]

\* one request through the middleware
RateLimiter(caller) ==
    LET out == BucketAllow(bucket, now)
    IN /\ Len(served) < MaxRequests
       /\ bucket' = out[1]
       /\ IF out[2]
          THEN /\ Routed
               /\ gate' = Gate("bucket", caller, <<>>, "ADMITTED", resp'.status, {},
                               resp'.body, TRUE)
               /\ served' = Append(served, Seen(caller, now, "ADMITTED", TRUE))
          ELSE /\ NotRouted
               /\ gate' = Gate("bucket", caller, <<>>, "REJECTED_LIMIT", 429, {},
                               ErrorBody("too many requests"), FALSE)
               /\ served' = Append(served, Seen(caller, now, "REJECTED_LIMIT", FALSE))
       /\ UNCHANGED counters

(***************************************************************************)
(* Initial states.                                                         *)
(***************************************************************************)
NoParams == [page |-> 0, pageSize |-> 0, offset |-> 0]

NoQuery ==
    [page |-> NoneT, page_size |-> NoneT, sort_by |-> NoneS, order |-> NoneS,
     name |-> NoneT, min_stock |-> NoneT, limit |-> NoneT, offset |-> NoneT]

CrudInit ==
    /\ store = <<>>
    /\ now = 1
    /\ used = {}
    /\ deleted = {}
    /\ resp = NoResp

CrudIdle ==
    /\ now = 1
    /\ used = {}
    /\ deleted = {}
    /\ resp = NoResp

ListIdle ==
    /\ query = NoQuery
    /\ paging = NoParams
    /\ built = NewQueryBuilder
    /\ reads = <<>>
    /\ listing = NoPage

LimIdle ==
    /\ counters = <<>>
    /\ bucket = NewLimiter(BucketRate, BucketBurst)
    /\ gate = NoGate
    /\ served = <<>>

\* no builder chain under way, no request in flight
NoChain == [pc |-> "idle", db |-> "", heap |-> <<>>, filters |-> 0, held |-> <<>>]

StepIdle ==
    /\ chain = NoChain
    /\ reqs = <<>>

Init == CrudInit /\ ListIdle /\ LimIdle /\ StepIdle

(***************************************************************************)
(* Spec: the handlers over several items, requests one after another, the  *)
(* clock standing still.                                                   *)
(***************************************************************************)
Next ==
    /\ \/ \E id \in Ids, e \in BOOLEAN : GetItemByID(id, e)
       \/ \E b \in CreateBodies : \E g \in GenChoices(b, FreshIds) : CreateItem(b, g, FALSE)
       \/ \E g \in FreshIds : CreateItem(SampleBody, g, TRUE)
       \/ \E id \in Ids, b \in UpdateBodies : UpdateItem(id, b, FALSE, FALSE)
       \/ \E id \in Ids : UpdateItem(id, SampleBody, TRUE, FALSE)
       \/ \E id \in Ids : UpdateItem(id, SampleBody, FALSE, TRUE)
       \/ \E id \in Ids, e \in BOOLEAN : DeleteItem(id, e, FALSE)
       \/ \E id \in Ids : DeleteItem(id, FALSE, TRUE)
    /\ UNCHANGED listVars
    /\ UNCHANGED stepVars
    /\ UNCHANGED limVars

Spec == Init /\ [][Next]_vars

(***************************************************************************)
(* SpecTime: the life of one item while the clock advances, with Create    *)
(* bodies that carry their own timestamps.                                 *)
(***************************************************************************)
TimeIds == {1}

NextTime ==
    /\ \/ \E e \in BOOLEAN : GetItemByID(1, e)
       \/ \E b \in FullBodies \cup StampedBodies :
             \E g \in GenChoices(b, FreshIds \cap TimeIds) : CreateItem(b, g, FALSE)
       \/ \E b \in UpdateBodies : UpdateItem(1, b, FALSE, FALSE)
       \/ UpdateItem(1, SampleBody, FALSE, TRUE)
       \/ DeleteItem(1, FALSE, FALSE)
       \/ Tick
    /\ UNCHANGED listVars
    /\ UNCHANGED stepVars
    /\ UNCHANGED limVars

SpecTime == Init /\ [][NextTime]_vars

(***************************************************************************)
(* SpecList: one GET /inventory over a store that no one writes to.  The   *)
(* store holds any subset of a catalogue of rows; the query is drawn from  *)
(* three families, each varying some parameters.                           *)
(***************************************************************************)
MaxRows == 4

CatalogNames ==
    <<<<"L", "a", "p">>, <<"l", "a", "b">>, <<"M", "a", "p">>, <<"K", "e", "y">>, <<"P", "a", "d">>, <<"C", "a", "p">>>>
CatalogStocks == <<10, 25, 15, 30, 12, 0>>
CatalogPrices == <<999, 699, 199, 89, 299, 1>>

CatalogItem(i) ==
    LET k == ((i - 1) % 6) + 1
    IN Item(i, CatalogNames[k], CatalogStocks[k], CatalogPrices[k],
            (i + 1) \div 2, (i + 1) \div 2)

ListStores == {[i \in S |-> CatalogItem(i)] : S \in SUBSET (1..MaxRows)}

PageOpts ==
    {NoneT} \cup {Some(v) : v \in {<<>>, <<"a", "b", "c">>, <<"0">>, <<"-", "1">>, <<"2">>, <<"3">>, <<"9", "9", "9", "9", "9", "9">>}}

SizeOpts ==
    {NoneT} \cup {Some(v) : v \in {<<>>, <<"x">>, <<"0">>, <<"-", "5">>, <<"1">>, <<"2">>, <<"3">>, <<"1", "0", "0">>, <<"1", "0", "1">>}}

SortOpts ==
    {NoneS} \cup {Some(v) : v \in {"", "name", "stock", "price", "created_at",
                                   "NAME", "id", "name; DROP TABLE items"}}

OrderOpts ==
    {NoneS} \cup {Some(v) : v \in {"", "asc", "desc", "ASC", "asc, id", "descending"}}

NameOpts ==
    {NoneT} \cup {Some(v) : v \in {<<>>, <<"a">>, <<"a", "p">>, <<"L", "A">>, <<"l", "a">>, <<"%">>, <<"z">>}}

MinStockOpts ==
    {NoneT} \cup {Some(v) : v \in {<<>>, <<"0">>, <<"1", "2">>, <<"2", "6">>, <<"9", "9">>, <<"a", "b", "c">>, <<"9", "9", "9", "9", "9", "9">>}}

PagingQueries ==
    [page : PageOpts, page_size : SizeOpts, sort_by : {NoneS}, order : {NoneS},
     name : {NoneT}, min_stock : {NoneT, Some(<<"1", "2">>), Some(<<"9", "9">>)},
     limit : {NoneT}, offset : {NoneT}]

SortingQueries ==
    [page : {NoneT}, page_size : {NoneT, Some(<<"2">>)}, sort_by : SortOpts,
     order : OrderOpts, name : {NoneT}, min_stock : {NoneT},
     limit : {NoneT}, offset : {NoneT}]

FilterQueries ==
    [page : {NoneT, Some(<<"2">>)}, page_size : {NoneT}, sort_by : {NoneS},
     order : {NoneS}, name : NameOpts, min_stock : MinStockOpts,
     limit : {NoneT}, offset : {NoneT}]

\* the parameters the README documents for GET /inventory
LimitOpts ==
    {NoneT} \cup {Some(v) : v \in {<<"x">>, <<"0">>, <<"1">>, <<"2">>, <<"1", "0", "1">>}}

OffsetOpts ==
    {NoneT} \cup {Some(v) : v \in {<<"x">>, <<"-", "1">>, <<"0">>, <<"1">>, <<"3">>}}

WindowQueries ==
    [page : {NoneT}, page_size : {NoneT}, sort_by : {NoneS, Some("name")},
     order : {NoneS}, name : {NoneT}, min_stock : {NoneT},
     limit : LimitOpts, offset : OffsetOpts]

Queries == PagingQueries \cup SortingQueries \cup FilterQueries \cup WindowQueries

ListInit ==
    /\ store \in ListStores
    /\ query \in Queries
    /\ paging = NoParams
    /\ built = NewQueryBuilder
    /\ reads = <<>>
    /\ listing = NoPage
    /\ CrudIdle
    /\ LimIdle
    /\ StepIdle

NextList ==
    /\ \/ GetItems(FALSE, FALSE)
       \/ GetItems(TRUE, FALSE)
       \/ GetItems(FALSE, TRUE)
    /\ UNCHANGED <<now, used, deleted, resp>>
    /\ UNCHANGED limVars
    /\ UNCHANGED stepVars

SpecList == ListInit /\ [][NextList]_vars

(***************************************************************************)
(* SpecLimiter: requests through the Redis limiter as the clock advances.  *)
(***************************************************************************)
NextLimiter ==
    /\ \/ \E ip \in Clients : RedisRateLimiter(ip, FALSE)
       \/ \E ip \in Clients : RedisRateLimiter(ip, TRUE)
       \/ Tick /\ UNCHANGED limVars
    /\ UNCHANGED listVars
    /\ UNCHANGED stepVars

SpecLimiter == Init /\ [][NextLimiter]_vars

(***************************************************************************)
(* SpecUserLimiter: requests through the per-user Redis limiter, from      *)
(* authenticated users and from clients without a user id, next to         *)
(* requests of one client through the per-IP limiter.                      *)
(***************************************************************************)
NextUserLimiter ==
    /\ \/ \E u \in UserOpts, ip \in Clients : RedisRateLimiterByUser(u, ip, FALSE)
       \/ \E ip \in Clients : RedisRateLimiterByUser(NoneS, ip, TRUE)
       \/ \E ip \in {"10.0.0.2"} : RedisRateLimiter(ip, FALSE)
       \/ Tick /\ UNCHANGED limVars
    /\ UNCHANGED listVars
    /\ UNCHANGED stepVars

SpecUserLimiter == Init /\ [][NextUserLimiter]_vars

(***************************************************************************)
(* SpecBucket: requests through the in-process limiter as the clock        *)
(* advances.                                                               *)
(***************************************************************************)
NextBucket ==
    /\ \/ \E caller \in Clients : RateLimiter(caller)
       \/ Tick /\ UNCHANGED limVars
    /\ UNCHANGED listVars
    /\ UNCHANGED stepVars

SpecBucket == Init /\ [][NextBucket]_vars

(***************************************************************************)
(* seeds.SeedDatabase, run by main at every start of the service: it       *)
(* inserts the seed items when the table is empty.  The model seeds as     *)
(* many of the five items as it has ids for.                               *)
(***************************************************************************)
SeedCount == Min(Len(CatalogNames) - 1, MaxIds)

SeedItem(i) == Item(NoId, CatalogNames[i], CatalogStocks[i], CatalogPrices[i], ZeroTime, ZeroTime)

\* the ids uuid.NewString() may give to the seed items (none is generated
\* when the table has rows)
SeedIds ==
    IF store # <<>>
    THEN {[i \in 1..SeedCount |-> NoId]}
    ELSE {g \in [1..SeedCount -> FreshIds] : \A i, j \in 1..SeedCount : g[i] = g[j] => i = j}

\* a seeder that inserts its batch without looking at the count
SeedRows_Always(st, gens, t) ==
    LET new == [id \in {gens[i] : i \in DOMAIN gens} |->
                   LET i == CHOOSE i \in DOMAIN gens : gens[i] = id
                   IN CreateStamp(BeforeCreate(SeedItem(i), gens[i]), t)]
    IN [id \in DOMAIN st \cup DOMAIN new |->
           IF id \in DOMAIN new THEN new[id] ELSE st[id]]

\* the table after SeedDatabase: count > 0 returns at once, else db.Create
\* inserts the batch, item i under the generated id gens[i]
SeedRows(st, gens, t) ==
    IF st # <<>>
    THEN st
    ELSE [id \in {gens[i] : i \in DOMAIN gens} |->
             LET i == CHOOSE i \in DOMAIN gens : gens[i] = id
             IN CreateStamp(BeforeCreate(SeedItem(i), gens[i]), t)]

\* a table that has rows is left alone (and so is it when the store fails:
\* main then exits)
SeedDatabase(gens) ==
    /\ store' = SeedRows(store, gens, now)
    /\ used' = IF store # <<>> THEN used ELSE used \cup {gens[i] : i \in 1..SeedCount}
    /\ UNCHANGED <<now, deleted, resp>>

(***************************************************************************)
(* SpecSeed: the service restarting (and seeding) between the requests on  *)
(* its items.                                                              *)
(***************************************************************************)
SeedBodies ==
    {SampleBody}
    \cup {[name |-> SampleBody["name"], stock |-> SampleBody["stock"],
           price |-> SampleBody["price"], id |-> JStr(i)] : i \in Ids}

NextSeed ==
    /\ \/ \E gens \in SeedIds : SeedDatabase(gens)
       \/ \E b \in SeedBodies : \E g \in GenChoices(b, FreshIds) : CreateItem(b, g, FALSE)
       \/ \E id \in Ids : UpdateItem(id, [stock |-> JNum(0)], FALSE, FALSE)
       \/ \E id \in Ids : DeleteItem(id, FALSE, FALSE)
       \/ \E id \in Ids : GetItemByID(id, FALSE)
    /\ UNCHANGED listVars
    /\ UNCHANGED stepVars
    /\ UNCHANGED limVars

SpecSeed == Init /\ [][NextSeed]_vars

(***************************************************************************)
(* controllers.GetItems line by line.  The *gorm.DB values of the handler  *)
(* are objects on a heap, named after the variables that hold them:        *)
(* db.Model(...) makes a new instance ("query"); Order, Where, Offset and  *)
(* Limit called on it add their clause to its statement and return the     *)
(* same instance; query.Session(&gorm.Session{}) makes a copy             *)
(* ("countQuery").  An instance is its statement and its OFFSET / LIMIT    *)
(* window, <<>> while it has none.  chain.held remembers, for the value    *)
(* GetQuery() returns after each builder step, what it denoted then.       *)
(***************************************************************************)
Instance(stmt, window) == [stmt |-> stmt, window |-> window]

\* qb.GetQuery() now, kept by the caller
Hold(c) == [c EXCEPT !.held = Append(@, [ref |-> c.db, denotes |-> c.heap[c.db]])]

\* utils.NewQueryBuilder(db.Model(&models.Item{}), c), after
\* utils.ExtractPaginationParams(c)
NewQueryBuilderStep ==
    /\ chain.pc = "idle"
    /\ listing = NoPage
    /\ chain' = Hold([pc |-> "new", db |-> "query",
                      heap |-> [a \in {"query"} |-> Instance(NewQueryBuilder, <<>>)],
                      filters |-> 0, held |-> <<>>])
    /\ paging' = ExtractPaginationParams(query)
    /\ UNCHANGED <<store, query, built, reads, listing>>

\* qb.db = qb.db.Order(...); return qb
ApplySortingStep ==
    /\ chain.pc = "new"
    /\ chain' = Hold([chain EXCEPT
                         !.pc = "sorted",
                         !.heap[chain.db].stmt = ApplySorting(@, query, ItemSortConfig)])
    /\ UNCHANGED <<store, query, paging, built, reads, listing>>

\* ApplyFilters: the next qb.ApplyFilter(config), qb.db = qb.db.Where(...)
ApplyFilterStep ==
    /\ chain.pc = "sorted"
    /\ chain.filters < Len(ItemFilterConfigs)
    /\ chain' = Hold([chain EXCEPT
                         !.filters = @ + 1,
                         !.heap[chain.db].stmt =
                             ApplyFilter(@, query, ItemFilterConfigs[chain.filters + 1])])
    /\ UNCHANGED <<store, query, paging, built, reads, listing>>

\* query := ...Build()
BuildStep ==
    /\ chain.pc = "sorted"
    /\ chain.filters = Len(ItemFilterConfigs)
    /\ chain' = [chain EXCEPT !.pc = "built"]
    /\ built' = chain.heap[chain.db].stmt
    /\ UNCHANGED <<store, query, paging, reads, listing>>

\* PaginateWithQuery: countQuery := query.Session(&gorm.Session{});
\* countQuery.Model(new(T)).Count(&total); an error ends the handler
CountStep(countErr) ==
    /\ chain.pc = "built"
    /\ LET copy == [a \in {"query", "countQuery"} |-> chain.heap["query"]]
           stmt == copy["countQuery"].stmt
       IN IF StatementFails(stmt) \/ countErr
          THEN /\ chain' = [chain EXCEPT !.pc = "failed", !.heap = copy]
               /\ \E out \in PaginateWithQuery(store, stmt, paging, countErr, FALSE) :
                     /\ reads' = out[1]
                     /\ listing' = out[2]
          ELSE /\ chain' = [chain EXCEPT !.pc = "counted", !.heap = copy]
               /\ reads' = <<CountRead(stmt, "ok")>>
               /\ listing' = listing
    /\ UNCHANGED <<store, query, paging, built>>

\* PaginateWithQuery: query.Offset(params.Offset).Limit(params.PageSize)
\* .Find(&data), and the response
FindStep(findErr) ==
    /\ chain.pc = "counted"
    /\ chain' = [chain EXCEPT !.pc = "found",
                              !.heap["query"].window = <<paging.offset, paging.pageSize>>]
    /\ \E out \in PaginateWithQuery(store, chain.heap["query"].stmt, paging, FALSE, findErr) :
          /\ reads' = out[1]
          /\ listing' = out[2]
    /\ UNCHANGED <<store, query, paging, built>>

(***************************************************************************)
(* SpecBuilder: one GET /inventory, line by line.                          *)
(***************************************************************************)
BuilderStores == {st \in ListStores : Cardinality(DOMAIN st) <= 2}

BuilderQueries ==
    [page : {NoneT, Some(<<"2">>)}, page_size : {NoneT}, sort_by : {NoneS, Some("name")},
     order : {NoneS}, name : {NoneT, Some(<<>>), Some(<<"a">>)},
     min_stock : {NoneT, Some(<<"1", "2">>), Some(<<"a", "b", "c">>)},
     limit : {NoneT}, offset : {NoneT}]

BuilderInit ==
    /\ store \in BuilderStores
    /\ query \in BuilderQueries
    /\ paging = NoParams
    /\ built = NewQueryBuilder
    /\ reads = <<>>
    /\ listing = NoPage
    /\ CrudIdle
    /\ LimIdle
    /\ StepIdle

NextBuilder ==
    /\ \/ NewQueryBuilderStep
       \/ ApplySortingStep
       \/ ApplyFilterStep
       \/ BuildStep
       \/ CountStep(FALSE)
       \/ CountStep(TRUE)
       \/ FindStep(FALSE)
       \/ FindStep(TRUE)
    /\ UNCHANGED <<now, used, deleted, resp, reqs>>
    /\ UNCHANGED limVars

SpecBuilder == BuilderInit /\ [][NextBuilder]_vars

(***************************************************************************)
(* Requests in flight.  gin serves every request on a goroutine of its     *)
(* own, so the handlers interleave between their store operations; each    *)
(* store operation (and the limiter's check) is one atomic step.  A        *)
(* request is its route and input, its position, the handler's locals      *)
(* (item, total), the responses written for it and the operations it has   *)
(* attempted.                                                              *)
(***************************************************************************)
Requests == {"r1", "r2"}

ConcClient == "10.0.0.1"

\* the row the requests work on
ConcItem == Item(1, <<"a">>, 9, 150, 1, 1)

\* var item models.Item
NoItem == Item(NoId, <<>>, 0, 0, ZeroTime, ZeroTime)

Request(op, id, body) ==
    [op |-> op, id |-> id, body |-> body, pc |-> "limiter", item |-> NoItem,
     total |-> 0, sent |-> <<>>, ops |-> <<>>]

Arrivals ==
    {Request("get", 1, NoBody), Request("delete", 1, NoBody), Request("list", NoId, NoBody)}
    \cup {Request("update", 1, b) :
              b \in {[name |-> JStr(<<"A", "b">>)], [stock |-> JNum(0)], BadJSON}}
    \cup {Request("create", NoId, b) : b \in {SampleBody, BadJSON}}

\* an operation on the limiter or the store, attempted by the request
Attempt(req, name, failed) ==
    [req EXCEPT !.ops = Append(@, [name |-> name, failed |-> failed])]

\* c.JSON(status, body) / c.Status(status)
Answer(req, status, body) ==
    [req EXCEPT !.sent = Append(@, [status |-> status, body |-> body])]

\* ... followed by return (c.AbortWithStatusJSON in a middleware)
Finish(req, status, body) == [Answer(req, status, body) EXCEPT !.pc = "done"]

With(r, req) == [reqs EXCEPT ![r] = req]

At(r, pc) == r \in DOMAIN reqs /\ reqs[r].pc = pc

\* the router accepts a request (a Create only while the model has an id left
\* for uuid.NewString() to give it)
Arrive(r, req) ==
    /\ r \notin DOMAIN reqs
    /\ (req.op = "create" /\ BindItemOK(req.body))
       => Cardinality({k \in DOMAIN reqs : /\ reqs[k].op = "create"
                                           /\ reqs[k].pc # "done"
                                           /\ BindItemOK(reqs[k].body)})
             < Cardinality(FreshIds)
    /\ reqs' = [k \in DOMAIN reqs \cup {r} |-> IF k = r THEN req ELSE reqs[k]]
    /\ UNCHANGED <<store, now, used, deleted, resp, counters>>

\* a limiter whose rejection does not end the request
LimitStep_NoAbort(r, backendErr) ==
    /\ At(r, "limiter")
    /\ LET out == Allow(counters, RedisKey(ConcClient), Limit(RedisRate, RedisBurst), now)
           req == Attempt(reqs[r], "allow", backendErr)
       IN IF RedisOutcome(backendErr, out[2]) = "REJECTED_ERROR"
          THEN /\ reqs' = With(r, Finish(req, 500, ErrorBody("rate limiter error")))
               /\ UNCHANGED counters
          ELSE IF RedisOutcome(backendErr, out[2]) = "REJECTED_LIMIT"
          THEN /\ reqs' = With(r, [Answer(req, 429, ErrorBody("too many requests"))
                                      EXCEPT !.pc = "handler"])
               /\ counters' = out[1]
          ELSE /\ reqs' = With(r, [req EXCEPT !.pc = "handler"])
               /\ counters' = out[1]
    /\ UNCHANGED <<store, now, used, deleted, resp>>

\* middlewares.RedisRateLimiter: the check, then c.Next() or an aborting answer
LimitStep(r, backendErr) ==
    /\ At(r, "limiter")
    /\ LET out == Allow(counters, RedisKey(ConcClient), Limit(RedisRate, RedisBurst), now)
           req == Attempt(reqs[r], "allow", backendErr)
       IN IF RedisOutcome(backendErr, out[2]) = "REJECTED_ERROR"
          THEN /\ reqs' = With(r, Finish(req, 500, ErrorBody("rate limiter error")))
               /\ UNCHANGED counters
          ELSE IF RedisOutcome(backendErr, out[2]) = "REJECTED_LIMIT"
          THEN /\ reqs' = With(r, Finish(req, 429,
                                         [error |-> "too many requests",
                                          retry_after |-> Itoa(out[2].RetryAfter) \o Seconds]))
               /\ counters' = out[1]
          ELSE /\ reqs' = With(r, [req EXCEPT !.pc = "handler"])
               /\ counters' = out[1]
    /\ UNCHANGED <<store, now, used, deleted, resp>>

\* GetItemByID / UpdateItem / DeleteItem: db.First(&item, "id = ?", id)
FirstStep(r, dbErr) ==
    /\ At(r, "handler")
    /\ reqs[r].op \in {"get", "update", "delete"}
    /\ LET id == reqs[r].id
           req == Attempt(reqs[r], "first", dbErr \/ ~DbFound(store, id))
       IN reqs' = With(r, IF dbErr \/ ~DbFound(store, id)
                          THEN Finish(req, 404, ErrorBody("item not found"))
                          ELSE IF req.op = "get"
                          THEN Finish(req, 200, store[id])
                          ELSE [req EXCEPT !.item = store[id], !.pc = "loaded"])
    /\ UNCHANGED <<store, now, used, deleted, resp, counters>>

\* UpdateItem after the lookup: bind the payload, copy its fields, db.Save(&item)
SaveStep(r, saveErr) ==
    /\ At(r, "loaded")
    /\ reqs[r].op = "update"
    /\ IF ~BindPayloadOK(reqs[r].body)
       THEN /\ reqs' = With(r, Finish(reqs[r], 400, ErrorBody("bind")))
            /\ UNCHANGED <<store, deleted>>
       ELSE LET item == ApplyPayload(reqs[r].item, reqs[r].body)
                req == Attempt(reqs[r], "save", saveErr)
            IN IF saveErr
               THEN /\ reqs' = With(r, Finish(req, 500, ErrorBody("db")))
                    /\ UNCHANGED <<store, deleted>>
               ELSE /\ store' = DbSave(store, item, now)
                    /\ deleted' = deleted \ {item.id}
                    /\ reqs' = With(r, Finish([req EXCEPT !.item = SaveStamp(item, now)],
                                              200, SaveStamp(item, now)))
    /\ UNCHANGED <<now, used, resp, counters>>

\* DeleteItem after the lookup: db.Delete(&item)
DeleteStep(r, delErr) ==
    /\ At(r, "loaded")
    /\ reqs[r].op = "delete"
    /\ LET req == Attempt(reqs[r], "delete", delErr)
       IN IF delErr
          THEN /\ reqs' = With(r, Finish(req, 500, ErrorBody("db")))
               /\ UNCHANGED <<store, deleted>>
          ELSE /\ store' = DbDelete(store, req.item.id)
               /\ deleted' = deleted \cup {req.item.id}
               /\ reqs' = With(r, Finish(req, 204, NoBody))
    /\ UNCHANGED <<now, used, resp, counters>>

\* CreateItem: bind, db.Create(&input)
CreateStep(r, gen, dbErr) ==
    /\ At(r, "handler")
    /\ reqs[r].op = "create"
    /\ IF ~BindItemOK(reqs[r].body)
       THEN /\ reqs' = With(r, Finish(reqs[r], 400, ErrorBody("bind")))
            /\ UNCHANGED <<store, used, deleted>>
       ELSE LET item == CreateStamp(BeforeCreate(BindItem(reqs[r].body), gen), now)
                failed == dbErr \/ ~DbCreateOK(store, item)
                req == Attempt(reqs[r], "create", failed)
            IN IF failed
               THEN /\ reqs' = With(r, Finish(req, 500, ErrorBody("db")))
                    /\ UNCHANGED <<store, used, deleted>>
               ELSE /\ store' = DbInsert(store, item)
                    /\ used' = used \cup {item.id}
                    /\ deleted' = deleted \ {item.id}
                    /\ reqs' = With(r, Finish([req EXCEPT !.item = item], 201, item))
    /\ UNCHANGED <<now, resp, counters>>

\* GetItems (no query parameters): PaginateWithQuery's count
ListCountStep(r, countErr) ==
    /\ At(r, "handler")
    /\ reqs[r].op = "list"
    /\ LET req == Attempt(reqs[r], "count", countErr)
       IN reqs' = With(r, IF countErr
                          THEN Finish(req, 500, ErrorBody("store"))
                          ELSE [req EXCEPT
                                   !.total = Cardinality(Matching(store,
                                                 BuildItemQuery(NoQuery).wheres)),
                                   !.pc = "counted"])
    /\ UNCHANGED <<store, now, used, deleted, resp, counters>>

\* GetItems: PaginateWithQuery's fetch, and the response
ListFindStep(r, findErr) ==
    /\ At(r, "counted")
    /\ LET req == Attempt(reqs[r], "find", findErr)
           stmt == BuildItemQuery(NoQuery)
           params == ExtractPaginationParams(NoQuery)
       IN IF findErr
          THEN reqs' = With(r, Finish(req, 500, ErrorBody("store")))
          ELSE \E rows \in SortedRows(store, Matching(store, stmt.wheres), stmt.orders) :
                  reqs' = With(r, Finish(req, 200,
                                         [data |-> Window(rows, params.offset, params.pageSize),
                                          pagination |-> PaginationMeta(req.total, params)]))
    /\ UNCHANGED <<store, now, used, deleted, resp, counters>>

\* the next step of request r
Handle(r) ==
    \/ \E e \in BOOLEAN : LimitStep(r, e)
    \/ \E e \in BOOLEAN : FirstStep(r, e)
    \/ \E e \in BOOLEAN : SaveStep(r, e)
    \/ \E e \in BOOLEAN : DeleteStep(r, e)
    \/ /\ At(r, "handler")
       /\ \E g \in GenChoices(reqs[r].body, FreshIds), e \in BOOLEAN : CreateStep(r, g, e)
    \/ \E e \in BOOLEAN : ListCountStep(r, e)
    \/ \E e \in BOOLEAN : ListFindStep(r, e)

(***************************************************************************)
(* SpecConc: two requests of one client on one row, interleaved.  The      *)
(* client may have used up all but one request of its allowance.           *)
(* FairConc: the same, every handler running on.                           *)
(***************************************************************************)
ConcInit ==
    /\ store = [i \in {1} |-> ConcItem]
    /\ now = 1
    /\ used = {1}
    /\ deleted = {}
    /\ resp = NoResp
    /\ ListIdle
    /\ counters \in {<<>>, [k \in {RedisKey(ConcClient)} |-> now + RedisBurst - 1]}
    /\ bucket = NewLimiter(BucketRate, BucketBurst)
    /\ gate = NoGate
    /\ served = <<>>
    /\ StepIdle

NextConc ==
    /\ \/ \E r \in Requests, req \in Arrivals : Arrive(r, req)
       \/ \E r \in Requests : Handle(r)
    /\ UNCHANGED listVars
    /\ UNCHANGED <<bucket, gate, served, chain>>

SpecConc == ConcInit /\ [][NextConc]_vars

\* a handler that has a step to take takes it
FairConc ==
    /\ SpecConc
    /\ \A r \in Requests :
          WF_vars(Handle(r) /\ UNCHANGED listVars /\ UNCHANGED <<bucket, gate, served, chain>>)

(***************************************************************************)
(* Claims about the Item handlers.                                         *)
(***************************************************************************)
\* the PUT bodies that hold a subset of name/stock/price, each with a value
PartialBodies ==
    {Restrict(b, S) : b \in FullBodies, S \in SUBSET {"name", "stock", "price"}}

FieldKept(body, k, old, new) ==
    IF Has(body, k) THEN new[k] = body[k].v ELSE new[k] = old[k]

\* C1: an Update that answers 200 leaves exactly the fields of its body with
\* the supplied values, every other field (and id, created_at) as it was, and
\* updated_at not earlier than it was.
C1_PartialUpdate ==
    [][\A id \in Ids : \A b \in PartialBodies :
          (id \in DOMAIN store /\ UpdateItem(id, b, FALSE, FALSE) /\ resp'.status = 200)
          => /\ id \in DOMAIN store'
             /\ FieldKept(b, "name", store[id], store'[id])
             /\ FieldKept(b, "stock", store[id], store'[id])
             /\ FieldKept(b, "price", store[id], store'[id])
             /\ store'[id].id = store[id].id
             /\ store'[id].created_at = store[id].created_at
             /\ store'[id].updated_at >= store[id].updated_at]_vars

\* C2: a Create of a body {name, stock, price}, the store working, answers 201
\* with a non-empty id and stores a row with that name, stock and price; a row
\* changes or goes only by an Update (200) or a Delete (204) of its id; and a
\* Get-by-id of an id that has a row, the store working, answers 200 with the
\* row's name, stock and price.
C2_CreateGetRoundTrip ==
    [][/\ \A b \in FullBodies : \A g \in FreshIds :
            (resp'.op = "create" /\ CreateItem(b, g, FALSE))
            => /\ resp'.status = 201
               /\ resp'.id # NoId
               /\ resp'.body.id = resp'.id
               /\ resp'.id \in DOMAIN store'
               /\ NameStockPrice(store'[resp'.id]) = NameStockPrice(BindItem(b))
               /\ store'[resp'.id].name = b["name"].v
               /\ store'[resp'.id].stock = b["stock"].v
               /\ store'[resp'.id].price = b["price"].v
       /\ \A id \in DOMAIN store :
            (id \notin DOMAIN store' \/ store'[id] # store[id])
            => /\ resp'.id = id
               /\ \/ resp'.op = "update" /\ resp'.status = 200
                  \/ resp'.op = "delete" /\ resp'.status = 204
       /\ \A id \in DOMAIN store :
            (resp'.op = "get" /\ GetItemByID(id, FALSE))
            => /\ resp'.status = 200
               /\ NameStockPrice(resp'.body) = NameStockPrice(store[id])]_vars

\* a Get-by-id has answered 200 with an item a Create stored
C2_Witness ==
    /\ resp.op = "get"
    /\ resp.status = 200
    /\ resp.id \in DOMAIN store
    /\ NameStockPrice(resp.body) = [name |-> <<"A", "b">>, stock |-> 9, price |-> 150]

Listed == listing.status = 200

\* the least n >= 1 with n * pageSize >= total
LeastCover(total, pageSize) ==
    CHOOSE n \in 1..(total + 1) :
        /\ n * pageSize >= total
        /\ \A m \in 1..(n - 1) : m * pageSize < total

\* C6: the pagination metadata of a List response: total_pages is
\* max(1, ceil(total_records / page_size)), has_next is current_page <
\* total_pages, has_prev is current_page > 1, and current_page and page_size
\* are the page and the page size that were asked for.
C6_PaginationMeta ==
    Listed =>
        /\ paging.page >= 1 /\ paging.pageSize \in 1..MaxPageSize
        /\ listing.pagination.total_records = Cardinality(Matching(store, built.wheres))
        /\ listing.pagination.total_pages =
              LeastCover(listing.pagination.total_records, paging.pageSize)
        /\ listing.pagination.has_next =
              (listing.pagination.current_page < listing.pagination.total_pages)
        /\ listing.pagination.has_prev = (listing.pagination.current_page > 1)
        /\ listing.pagination.current_page = paging.page
        /\ listing.pagination.page_size = paging.pageSize

C6_Witness ==
    /\ Listed
    /\ listing.pagination.total_records = 3
    /\ listing.pagination.page_size = 2
    /\ listing.pagination.current_page = 2
    /\ listing.pagination.total_pages = 2
    /\ listing.pagination.has_prev /\ ~listing.pagination.has_next

\* C7: a List response over no matching rows reports total_pages 1 and both
\* has_next and has_prev false, whatever page was asked for.
C7_EmptyResult ==
    (Listed /\ listing.pagination.total_records = 0) =>
        /\ listing.pagination.total_pages = 1
        /\ ~listing.pagination.has_next
        /\ ~listing.pagination.has_prev

\* C8: whatever the page and page_size parameters hold, the extracted page is
\* at least 1 (1 by default), the page size is within 1..100 (10 by default,
\* 100 when above 100), and the offset is (page - 1) * pageSize.
C8_PaginationParams ==
    listing # NoPage =>
        /\ paging.page >= 1
        /\ (~query.page.given \/ ~IntSyntaxOK(query.page.v)) => paging.page = 1
        /\ paging.pageSize >= 1 /\ paging.pageSize <= 100
        /\ (~query.page_size.given \/ ~IntSyntaxOK(query.page_size.v)) => paging.pageSize = 10
        /\ (query.page_size.given /\ IntSyntaxOK(query.page_size.v)
              /\ Unsigned(query.page_size.v) # query.page_size.v) => paging.pageSize = 10
        /\ (query.page_size.given /\ IntSyntaxOK(query.page_size.v)
              /\ Unsigned(query.page_size.v) = query.page_size.v
              /\ DigitsValue(query.page_size.v, 0) > 100) => paging.pageSize = 100
        /\ paging.offset = (paging.page - 1) * paging.pageSize

\* the rows of a sorted sequence at the 0-based positions offset ..
\* offset + pageSize - 1
AtPositions(sorted, offset, pageSize) ==
    LET lo == Max(offset, 0)
        hi == Min(offset + pageSize - 1, Len(sorted) - 1)
    IN [i \in 1..(hi - lo + 1) |-> sorted[lo + i]]

\* C9: the rows of a List response are the rows at positions offset ..
\* offset + pageSize - 1 of the matching rows in the sort order asked for: as
\* many as min(pageSize, max(0, total_records - offset)), never more than
\* pageSize.
C9_PageWindow ==
    Listed =>
        /\ \E sorted \in SortedRows(store, Matching(store, built.wheres), built.orders) :
              listing.data = AtPositions(sorted, paging.offset, paging.pageSize)
        /\ Len(listing.data) =
              Min(paging.pageSize, Max(0, listing.pagination.total_records - paging.offset))
        /\ Len(listing.data) <= paging.pageSize

AllowedSortFields == {"name", "stock", "price", "created_at"}

AskedSortField ==
    IF query.sort_by.given /\ query.sort_by.v \in AllowedSortFields
    THEN query.sort_by.v ELSE "created_at"

AskedSortOrder ==
    IF query.order.given /\ query.order.v \in {"asc", "desc"} THEN query.order.v ELSE "desc"

\* C10: whatever sort_by and order hold, the statement carries exactly one
\* sort clause "<f> <o>", f being sort_by when it is an allowed field and
\* created_at otherwise, o being order when it is asc or desc and desc
\* otherwise; the store never refuses the statement because of its sort
\* clause, and the find read is issued with that clause.
C10_SortFallback ==
    listing # NoPage =>
        /\ built.orders = <<AskedSortField \o " " \o AskedSortOrder>>
        /\ \A i \in 1..Len(reads) :
              /\ reads[i].kind = "find" => reads[i].orders = built.orders
              /\ reads[i].outcome = "statement error" =>
                    \E j \in 1..Len(built.wheres) : WhereFails(built.wheres[j])
        /\ (query.name = NoneT /\ query.min_stock = NoneT /\ listing.status = 500)
              => listing.error = "store"

C10_Witness ==
    /\ Listed
    /\ query.sort_by = Some("name; DROP TABLE items")
    /\ query.order = Some("ASC")
    /\ built.orders = <<"created_at desc">>
    /\ Len(listing.data) > 1

(***************************************************************************)
(* Claims about the rate limiters.                                         *)
(***************************************************************************)
\* C4: a request through the Redis limiter ends as exactly one of ADMITTED,
\* REJECTED_LIMIT (429) and REJECTED_ERROR (500); the route handler runs if
\* and only if it is ADMITTED; a failing limiter backend always gives
\* REJECTED_ERROR (500); and the limiter is asked exactly once.
C4_LimiterGate ==
    [][\A ip \in Clients : \A e \in BOOLEAN :
          RedisRateLimiter(ip, e) =>
             /\ gate'.outcome \in {"ADMITTED", "REJECTED_LIMIT", "REJECTED_ERROR"}
             /\ gate'.outcome = "REJECTED_LIMIT" => gate'.status = 429
             /\ gate'.outcome = "REJECTED_ERROR" => gate'.status = 500
             /\ gate'.handled = (gate'.outcome = "ADMITTED")
             /\ gate'.outcome = "ADMITTED" =>
                   /\ resp'.op = "get"
                   /\ gate'.status = resp'.status /\ gate'.status \notin {429, 0}
             /\ gate'.outcome # "ADMITTED" => UNCHANGED <<store, resp, used, deleted>>
             /\ e = (gate'.outcome = "REJECTED_ERROR")
             /\ Len(gate'.calls) = 1
             /\ gate'.calls[1] = AllowCall(RedisKey(ip), e)]_vars

C4_Witness ==
    /\ gate.mw = "redis"
    /\ gate.outcome = "REJECTED_LIMIT"
    /\ gate.status = 429
    /\ counters[RedisKey(gate.client)] = now + RedisBurst
    /\ \E ip \in Clients : RedisKey(ip) \notin DOMAIN counters

Admitted(t) == {i \in 1..Len(served) : served[i].at = t /\ served[i].outcome = "ADMITTED"}

\* C5: the in-process limiter starts with a full bucket of 5 and refills 1
\* token a second: of six requests at the first instant the first five are
\* ADMITTED and the sixth is REJECTED_LIMIT (429, handler not run); at no
\* instant are more than 5 requests admitted, whoever the callers are.
C5_TokenBucket ==
    /\ (Len(served) >= 6 /\ served[6].at = 1) =>
          /\ \A i \in 1..5 : served[i].outcome = "ADMITTED" /\ served[i].handled
          /\ served[6].outcome = "REJECTED_LIMIT" /\ ~served[6].handled
    /\ \A t \in 1..MaxTime : Cardinality(Admitted(t)) <= 5
    /\ \A i \in 1..Len(served) :
          /\ served[i].outcome \in {"ADMITTED", "REJECTED_LIMIT"}
          /\ served[i].handled = (served[i].outcome = "ADMITTED")
    /\ bucket.tokens \in 0..5
    /\ (gate.mw = "bucket" /\ gate.outcome = "REJECTED_LIMIT") =>
          gate.status = 429 /\ ~gate.handled

C5_Witness ==
    /\ Len(served) >= 6
    /\ served[6].at = 1
    /\ served[6].outcome = "REJECTED_LIMIT"
    /\ {served[i].caller : i \in 1..5} = Clients
    /\ gate.status = 429

(***************************************************************************)
(* Claims about the filters of GET /inventory.                             *)
(***************************************************************************)
\* the responses a List request q can get from a working store
Responses(st, q) ==
    {out[2] : out \in PaginateWithQuery(st, BuildItemQuery(q),
                                        ExtractPaginationParams(q), FALSE, FALSE)}

StoreFailed == \E i \in 1..Len(reads) : reads[i].outcome = "store error"

NotGiven(k) == query[k] = NoneT \/ query[k] = Some(<<>>)

\* C11: a filter parameter that is absent or empty adds no predicate on its
\* column, and the response to the request is a response to the same request
\* with the parameter absent and with the parameter empty.
C11_AbsentFilter ==
    (listing # NoPage /\ ~StoreFailed) =>
        \A k \in {"name", "min_stock"} :
            NotGiven(k) =>
                /\ \A i \in 1..Len(built.wheres) :
                      built.wheres[i].col # (IF k = "name" THEN "name" ELSE "stock")
                /\ listing \in Responses(store, [query EXCEPT ![k] = NoneT])
                /\ listing \in Responses(store, [query EXCEPT ![k] = Some(<<>>)])

C11_Witness ==
    /\ Listed
    /\ query.name = Some(<<>>)
    /\ query.min_stock = Some(<<"1", "2">>)
    /\ listing.pagination.total_records = 2

Contains(s, v) == \E i \in 0..(Len(s) - Len(v)) : SubSeq(s, i + 1, i + Len(v)) = v

NameMatches(st, v) == {id \in DOMAIN st : Contains(Lower(st[id].name), Lower(v))}

\* C12: a List request with a non-empty name parameter v (and no other
\* filter) selects exactly the items whose name contains v, letter case
\* ignored on both sides.
C12_NameFilter ==
    (Listed /\ ~NotGiven("name") /\ NotGiven("min_stock")) =>
        /\ listing.pagination.total_records = Cardinality(NameMatches(store, query.name.v))
        /\ \A i \in 1..Len(listing.data) :
              listing.data[i].id \in NameMatches(store, query.name.v)

Reverse(seq) == [i \in 1..Len(seq) |-> seq[Len(seq) + 1 - i]]

\* the rows a List request q selects
Selected(st, q) == Matching(st, BuildItemQuery(q).wheres)

\* the rows it selects with the filter configurations taken in reverse order
SelectedReversed(st, q) ==
    Matching(st, ApplyFilters(ApplySorting(NewQueryBuilder, q, ItemSortConfig), q,
                              Reverse(ItemFilterConfigs)).wheres)

\* C13: a List request with both name and min_stock selects exactly the
\* rows that the name filter alone and the min_stock filter alone both
\* select, all of them with stock >= min_stock, and selects the same rows
\* when the filter configurations are applied in the other order.
C13_FiltersAnd ==
    (Listed /\ ~NotGiven("name") /\ ~NotGiven("min_stock")) =>
        /\ Matching(store, built.wheres) =
              Selected(store, [query EXCEPT !.min_stock = NoneT])
                  \cap Selected(store, [query EXCEPT !.name = NoneT])
        /\ \A id \in Matching(store, built.wheres) :
              store[id].stock >= DigitsValue(query.min_stock.v, 0)
        /\ SelectedReversed(store, query) = Matching(store, built.wheres)
        /\ listing.pagination.total_records = Cardinality(Matching(store, built.wheres))
        /\ \A i \in 1..Len(listing.data) :
              listing.data[i].id \in Matching(store, built.wheres)

C13_Witness ==
    /\ Listed
    /\ query.name = Some(<<"a">>)
    /\ query.min_stock = Some(<<"1", "2">>)
    /\ Cardinality(DOMAIN store) = 4
    /\ listing.pagination.total_records = 2

(***************************************************************************)
(* Claims about the errors of the Item handlers.                           *)
(***************************************************************************)
NotFoundBody == [error |-> "item not found"]

\* C14: a Get-by-id, Update or Delete of an id that has no row answers 404
\* {"error": "item not found"} and writes nothing; an Update of such an id
\* answers 404 whatever its body, a malformed one included.
C14_NotFound ==
    [][/\ (resp' # resp /\ resp'.op \in {"get", "update", "delete"}
             /\ resp'.id \notin DOMAIN store)
          => /\ resp'.status = 404
             /\ resp'.body = NotFoundBody
             /\ UNCHANGED <<store, used, deleted>>
       /\ \A id \in Ids \ DOMAIN store :
             UpdateItem(id, BadJSON, FALSE, FALSE)
             => resp'.status = 404 /\ UNCHANGED store]_vars

C14_Witness ==
    /\ resp.op = "update"
    /\ resp.status = 404
    /\ resp.body = NotFoundBody
    /\ resp.id \notin DOMAIN store
    /\ store # <<>>

\* C15: when the store fails during the lookup of a Get-by-id, Update or
\* Delete, the answer is 500; 404 is answered only for an id that has no row.
C15_StoreFailure ==
    [][/\ \A id \in Ids :
             (\/ GetItemByID(id, TRUE)
              \/ UpdateItem(id, SampleBody, TRUE, FALSE)
              \/ DeleteItem(id, TRUE, FALSE))
             => resp'.status = 500
       /\ (resp' # resp /\ resp'.status = 404) => resp'.id \notin DOMAIN store]_vars

MissingRequired(b) == \E k \in {"name", "stock", "price"} : ~Has(b, k)

Malformed(b) == Has(b, "bad")

\* C16: a Create whose body is malformed or lacks name, stock or price
\* answers 400 and inserts nothing; an Update whose body is malformed answers
\* 400 and leaves the stored item as it was.
C16_InvalidInput ==
    [][/\ \A b \in CreateBodies : \A g \in GenChoices(b, FreshIds) :
             ((Malformed(b) \/ MissingRequired(b)) /\ CreateItem(b, g, FALSE))
             => resp'.status = 400 /\ UNCHANGED store
       /\ \A id \in DOMAIN store : \A b \in UpdateBodies :
             (Malformed(b) /\ UpdateItem(id, b, FALSE, FALSE))
             => resp'.status = 400 /\ UNCHANGED store]_vars

(***************************************************************************)
(* Claims about the invariants of an Item.                                 *)
(***************************************************************************)
\* C17: every row is the one row of its id; a row that appears has an id
\* that no row has (a generated one has never been used); only an Update or
\* a Delete of its id changes or removes a row, so no Create or seeding
\* replaces one; and no step gives a row another id.
C17_Identifier ==
    /\ [](\A k \in DOMAIN store : k # NoId /\ store[k].id = k)
    /\ [][/\ \A k \in DOMAIN store \cap DOMAIN store' : store'[k].id = store[k].id
          /\ \A k \in DOMAIN store' \ DOMAIN store :
                \/ k \notin used
                \/ resp' # resp /\ resp'.op = "create" /\ resp'.id = k
          /\ \A k \in DOMAIN store :
                (k \notin DOMAIN store' \/ store'[k] # store[k])
                => resp'.op \in {"update", "delete"} /\ resp'.id = k
          /\ \A g \in FreshIds :
                CreateItem(SampleBody, g, FALSE)
                => resp'.status = 201 /\ resp'.id = g /\ g \in DOMAIN store']_vars

\* a Create with the id of a row has been refused, seeded rows in the table
C17_Witness ==
    /\ resp.op = "create"
    /\ resp.status = 500
    /\ Cardinality(DOMAIN store) = MaxIds
    /\ \E k \in DOMAIN store : store[k].name = CatalogNames[1] /\ store[k].stock = 0

\* C18: every row has created_at <= updated_at, whatever Creates (with
\* timestamps of their own or without) and Updates made it, and the
\* created_at of a row never changes.
C18_Timestamps ==
    /\ [](\A k \in DOMAIN store : store[k].created_at <= store[k].updated_at)
    /\ [][\A k \in DOMAIN store \cap DOMAIN store' :
             store'[k].created_at = store[k].created_at]_vars

(***************************************************************************)
(* Claims about the Redis limiters.                                        *)
(***************************************************************************)
HeaderNames == {h.name : h \in gate.headers}

\* C19: a 429 of either Redis limiter carries X-RateLimit-Limit,
\* X-RateLimit-Remaining and at least one of X-RateLimit-Reset and
\* Retry-After.
C19_RejectionHeaders ==
    (gate.mw \in {"redis", "redis by user"} /\ gate.outcome = "REJECTED_LIMIT") =>
        /\ gate.status = 429
        /\ "X-RateLimit-Limit" \in HeaderNames
        /\ "X-RateLimit-Remaining" \in HeaderNames
        /\ "X-RateLimit-Reset" \in HeaderNames \/ "Retry-After" \in HeaderNames

\* what the limiter would answer a request under a key
WouldAllow(cs, key) == Allow(cs, key, Limit(RedisRate, RedisBurst), now)[2]

\* the client identities of the per-user limiter: a user id, or the IP
\* address of a client without one
Identities == {<<"user", u>> : u \in UserIds} \cup {<<"ip", ip>> : ip \in Clients}

IdentityOf(userID, clientIP) ==
    IF userID.given THEN <<"user", userID.v>> ELSE <<"ip", clientIP>>

IdentityKey(who) ==
    IF who[1] = "user" THEN UserKey(Some(who[2]), "") ELSE UserKey(NoneS, who[2])

\* C20: a request of one client identity leaves what the limiter would
\* answer every other identity as it was, in the per-IP limiter and in the
\* per-user limiter.
C20_Isolation ==
    [][/\ \A ip \in Clients : \A e \in BOOLEAN :
             RedisRateLimiter(ip, e)
             => \A other \in Clients \ {ip} :
                   WouldAllow(counters', RedisKey(other)) = WouldAllow(counters, RedisKey(other))
       /\ \A u \in UserOpts : \A ip \in Clients : \A e \in BOOLEAN :
             RedisRateLimiterByUser(u, ip, e)
             => \A other \in Identities \ {IdentityOf(u, ip)} :
                   WouldAllow(counters', IdentityKey(other))
                       = WouldAllow(counters, IdentityKey(other))]_vars

(***************************************************************************)
(* Claims about the seeder.                                                *)
(***************************************************************************)
\* the number of items in SeedDatabase's batch
SeedSize == Len(CatalogNames) - 1

\* the ids a run of the seeder may generate
SeedGens ==
    {g \in [1..SeedCount -> Ids] : \A i, j \in 1..SeedCount : g[i] = g[j] => i = j}

\* rows is exactly the sample items 1..Len(gens), item i under id gens[i],
\* stamped t
IsSeedOf(rows, gens, t) ==
    /\ DOMAIN rows = {gens[i] : i \in DOMAIN gens}
    /\ Cardinality(DOMAIN rows) = Len(gens)
    /\ \A i \in DOMAIN gens :
          rows[gens[i]] = Item(gens[i], CatalogNames[i], CatalogStocks[i],
                               CatalogPrices[i], t, t)

\* C21: the seeder run on an empty table inserts exactly the fixed sample
\* items (all five of the batch when five ids are generated), each under a
\* fresh id of its own; run on a table with a row it changes nothing; so a
\* second run leaves the table of the first run.  No other step changes the
\* table without a response.
C21_Seeder ==
    /\ [](LET five == [i \in 1..SeedSize |-> i]
          IN /\ SeedSize = 5
             /\ IsSeedOf(SeedRows(<<>>, five, now), five, now)
             /\ SeedRows(SeedRows(<<>>, five, now), [i \in 1..SeedSize |-> i + SeedSize], now)
                    = SeedRows(<<>>, five, now)
             /\ \A gens \in SeedGens :
                   LET once == SeedRows(store, gens, now)
                   IN /\ store = <<>> => IsSeedOf(once, gens, now)
                      /\ store # <<>> => once = store
                      /\ \A again \in SeedGens : SeedRows(once, again, now) = once)
    /\ [][(store' # store /\ resp' = resp)
          => /\ store = <<>>
             /\ \E gens \in SeedGens :
                   /\ IsSeedOf(store', gens, now)
                   /\ {gens[i] : i \in 1..SeedCount} \cap used = {}
                   /\ used' = used \cup {gens[i] : i \in 1..SeedCount}]_vars

\* the seeder has filled the empty table and no request came yet
C21_Witness ==
    /\ resp = NoResp
    /\ store # <<>>
    /\ \E gens \in SeedGens : IsSeedOf(store, gens, now)

(***************************************************************************)
(* Claims about the documented limit / offset parameters.                  *)
(***************************************************************************)
\* the limit a request asks for: 10 by default and for a value that is not a
\* number or below 1, 100 for a value above 100
AskedLimit ==
    LET v == DefaultQuery(query, "limit", <<"1", "0">>)
    IN IF ~IntSyntaxOK(v) \/ Atoi(v) < 1 THEN 10
       ELSE IF Atoi(v) > 100 THEN 100
       ELSE Atoi(v)

\* the offset a request asks for: 0 by default and for a value that is not a
\* number or negative
AskedOffset ==
    LET v == DefaultQuery(query, "offset", <<"0">>)
    IN IF ~IntSyntaxOK(v) \/ Atoi(v) < 0 THEN 0 ELSE Atoi(v)

\* C22: a List response holds at most `limit` rows: the rows at positions
\* offset .. offset + limit - 1 of the matching rows in the sort order asked
\* for, limit and offset being the request's limit and offset parameters
\* with their documented defaults and bounds (requests without page and
\* page_size).
C22_LimitOffset ==
    (Listed /\ ~query.page.given /\ ~query.page_size.given) =>
        /\ Len(listing.data) <= AskedLimit
        /\ \E sorted \in SortedRows(store, Matching(store, built.wheres), built.orders) :
              listing.data = AtPositions(sorted, AskedOffset, AskedLimit)

(***************************************************************************)
(* Claims about the Query Builder and the Pagination Engine, line by line. *)
(***************************************************************************)
\* C23: a query value obtained from the builder denotes, after every later
\* step of the builder and after the count and the fetch, the statement (and
\* the window) it denoted when it was obtained.
C23_NoMutation ==
    \A i \in 1..Len(chain.held) :
        chain.heap[chain.held[i].ref] = chain.held[i].denotes

\* one GET /inventory line by line issues the reads and gives the response
\* of the handler taken as a whole
LineByLineAgrees ==
    chain.pc \in {"found", "failed"} =>
        /\ built = BuildItemQuery(query)
        /\ paging = ExtractPaginationParams(query)
        /\ \E ce, fe \in BOOLEAN :
              <<reads, listing>> \in PaginateWithQuery(store, BuildItemQuery(query),
                                                       ExtractPaginationParams(query), ce, fe)

\* C24: a List that answers 200 has issued exactly two reads, a count and
\* then a fetch, both with the filter predicates the builder built; the count
\* ran on an instance without OFFSET / LIMIT and total_records is the number
\* of all matching rows; after the count the query still denotes what the
\* builder built, and the fetch returns the window of that query.
C24_TwoReads ==
    /\ LineByLineAgrees
    /\ chain.pc \in {"counted", "failed"} =>
           chain.heap["query"] = Instance(built, <<>>)
    /\ chain.pc = "counted" =>
           /\ Len(reads) = 1 /\ reads[1].kind = "count" /\ reads[1].outcome = "ok"
           /\ chain.heap["countQuery"] = Instance(built, <<>>)
    /\ (chain.pc = "found" /\ Listed) =>
           /\ Len(reads) = 2
           /\ reads[1].kind = "count" /\ reads[2].kind = "find"
           /\ reads[1].wheres = built.wheres /\ reads[2].wheres = built.wheres
           /\ reads[2].orders = built.orders
           /\ reads[2].limit = paging.pageSize /\ reads[2].offset = paging.offset
           /\ chain.heap["countQuery"].window = <<>>
           /\ listing.pagination.total_records = Cardinality(Matching(store, built.wheres))
           /\ \E rows \in SortedRows(store, Matching(store, built.wheres), built.orders) :
                 listing.data = Window(rows, paging.offset, paging.pageSize)

\* page 2 of two matching rows: no row fetched, two rows counted
C24_Witness ==
    /\ chain.pc = "found"
    /\ Listed
    /\ Len(reads) = 2
    /\ listing.data = <<>>
    /\ listing.pagination.total_records = 2

(***************************************************************************)
(* Claims about failing reads.                                             *)
(***************************************************************************)
ReadFailed == \E i \in 1..Len(reads) : reads[i].outcome # "ok"

\* C25: a List whose count fails issues no fetch; a List with a failing read
\* answers 500 with an error and neither rows nor pagination metadata, and a
\* List that answers 200 had no failing read; a min_stock value that is not
\* a number makes the count fail.
C25_ReadFailure ==
    listing # NoPage =>
        /\ Len(reads) \in 1..2
        /\ reads[1].kind = "count"
        /\ reads[1].outcome # "ok" => Len(reads) = 1
        /\ Len(reads) = 2 => reads[2].kind = "find"
        /\ ReadFailed => /\ listing.status = 500
                         /\ DOMAIN listing = {"status", "error"}
        /\ ~ReadFailed => Listed /\ Len(reads) = 2
        /\ (query.min_stock.given /\ query.min_stock.v # <<>>
              /\ ~IntSyntaxOK(query.min_stock.v))
           => /\ listing.status = 500
              /\ Len(reads) = 1
              /\ reads[1].outcome = "statement error"

C25_Witness ==
    /\ listing.status = 500
    /\ query.min_stock = Some(<<"a", "b", "c">>)
    /\ query.name = Some(<<"a">>)
    /\ Len(reads) = 1

(***************************************************************************)
(* Claims about requests in flight.                                        *)
(***************************************************************************)
AllowedStatuses == {200, 201, 204, 400, 404, 429, 500}

OpNames(req) == {req.ops[i].name : i \in 1..Len(req.ops)}

\* C26: a request never has more than one response, and has one exactly when
\* its handling has ended; the status is one of 200, 201, 204, 400, 404, 429,
\* 500; a request with a failed limiter check or store operation is ended,
\* answered with a status of 400 or more and a body with an `error` field;
\* no operation is attempted twice for one request; and every request that
\* arrives is answered in the end.
C26_OneResponse ==
    /\ [](\A r \in DOMAIN reqs :
             LET req == reqs[r]
             IN /\ Len(req.sent) <= 1
                /\ (req.pc = "done") <=> (Len(req.sent) = 1)
                /\ \A i \in 1..Len(req.sent) : req.sent[i].status \in AllowedStatuses
                /\ Cardinality(OpNames(req)) = Len(req.ops)
                /\ Len(req.ops) <= 3
                /\ (\E i \in 1..Len(req.ops) : req.ops[i].failed)
                   => /\ req.pc = "done"
                      /\ req.ops[Len(req.ops)].failed
                      /\ req.sent[1].status \in {404, 500}
                      /\ "error" \in DOMAIN req.sent[1].body)
    /\ \A r \in Requests :
          (r \in DOMAIN reqs) ~> (r \in DOMAIN reqs /\ reqs[r].pc = "done")

\* one request turned away by the limiter, one whose Save failed
C26_Witness ==
    /\ DOMAIN reqs = Requests
    /\ \E r \in Requests : reqs[r].pc = "done" /\ reqs[r].sent[1].status = 429
    /\ \E r \in Requests :
          /\ reqs[r].pc = "done"
          /\ reqs[r].sent[1].status = 500
          /\ Len(reqs[r].ops) = 3
          /\ reqs[r].ops[3] = [name |-> "save", failed |-> TRUE]

Answered(r, op, status) ==
    /\ r \in DOMAIN reqs
    /\ reqs[r].op = op
    /\ reqs[r].pc = "done"
    /\ reqs[r].sent[1].status = status

\* C27: when two Updates of one item with bodies that set disjoint fields
\* have both answered 200, the stored item holds every value either body set.
C27_DisjointUpdates ==
    \A r1, r2 \in Requests :
        (/\ r1 # r2
         /\ Answered(r1, "update", 200) /\ Answered(r2, "update", 200)
         /\ reqs[r1].id = reqs[r2].id
         /\ DOMAIN reqs[r1].body \cap DOMAIN reqs[r2].body = {})
        => /\ reqs[r1].id \in DOMAIN store
           /\ \A r \in {r1, r2} : \A k \in DOMAIN reqs[r].body :
                 store[reqs[r].id][k] = reqs[r].body[k].v

\* C28: when an Update and a Delete of one item have both ended and the
\* Delete answered 204, the item has no row.
C28_NoResurrection ==
    \A r1, r2 \in Requests :
        (/\ Answered(r2, "delete", 204)
         /\ r1 \in DOMAIN reqs /\ reqs[r1].op = "update" /\ reqs[r1].pc = "done"
         /\ reqs[r1].id = reqs[r2].id)
        => reqs[r2].id \notin DOMAIN store

(***************************************************************************)
(* Claims about integer arithmetic.                                        *)
(***************************************************************************)
\* C29: for every page (and page_size) parameter of a List request the
\* offset that ExtractPaginationParams computes is not negative and is the
\* product (page - 1) * pageSize of the integers, and the fetch is not issued
\* with a negative offset.
C29_OffsetNotNegative ==
    listing # NoPage =>
        /\ paging = ExtractPaginationParams(query)
        /\ paging.offset >= 0
        /\ paging.offset = (paging.page - 1) * paging.pageSize
        /\ \A i \in 1..Len(reads) : reads[i].kind = "find" => reads[i].offset >= 0

(***************************************************************************)
(* Claims about the keys of the per-user limiter.                          *)
(***************************************************************************)
\* C30: the per-user limiter checks a request under a key that no other
\* client identity is checked under, and a request without a user id under
\* the key of the per-IP limiter, rate_limit:<ip>.
C30_DistinctKeys ==
    [][\A u \in UserOpts : \A ip \in Clients : \A e \in BOOLEAN :
          RedisRateLimiterByUser(u, ip, e)
          => /\ Len(gate'.calls) = 1
             /\ \A other \in Identities \ {IdentityOf(u, ip)} :
                   gate'.calls[1].key # IdentityKey(other)
             /\ ~u.given => gate'.calls[1].key = RedisKey(ip)]_vars

====
